---- MODULE Spec2Model ----
(***************************************************************************)
(* Model of PREDICT/processing/SearchCV.py: the hyperparameter search      *)
(* object (BaseSearchCV), its two execution backends (BaseSearchCVJoblib   *)
(* and BaseSearchCVfastr) and the reduction of the raw per-(candidate,     *)
(* split) results into the ranked, truncated result table (process_fit).   *)
(*                                                                         *)
(* Conventions.  Python indices are 0-based and are kept 0-based in every  *)
(* value the model stores (candidate numbers, split numbers, bestindices,  *)
(* best_index_); TLA+ sequences are 1-based, so Python's seq[i] is         *)
(* At(seq, i).  A floating-point mean is modelled by the exact rational    *)
(* <<numerator, denominator>> it rounds; rounding itself is not modelled.  *)
(* Python's None is the empty tuple <<>>.                                  *)
(***************************************************************************)
EXTENDS Integers, Sequences, FiniteSets, TLC

VARIABLES
    \* ---- constructor arguments / object attributes (BaseSearchCV.__init__)
    backend,            \* "joblib" or "fastr": the class of the search object
    maxlen,             \* self.maxlen
    iid,                \* self.iid
    refit,              \* self.refit
    return_train_score, \* self.return_train_score
    n_jobs,             \* self.n_jobs (joblib worker pool size)
    n_jobspercore,      \* self.n_jobspercore (fastr chunk size)
    plugin_arg,         \* the fastr_plugin argument given to the constructor
    fastr_plugin,       \* self.fastr_plugin
    \* ---- arguments of fit and behaviour of the external collaborators
    n_cand,             \* len(parameter_iterable)
    n_splits,           \* cv.get_n_splits(...)
    score,              \* <<c, s>> -> test score of candidate c on split s
    counts,             \* s -> number of test samples of split s
    \* ---- control state of the fit call
    pc,                 \* "constructed", "running", "fitted" or "failed"
    error,              \* name of the exception fit raised, or "none"
    raw,                \* the raw result list handed to process_fit
    \* ---- joblib backend: state of the Parallel call
    dispatched,         \* number of tasks handed to the worker pool so far
    out,                \* task index -> result of the task, <<>> if not done
    overtaken,          \* TRUE once a task completed before an earlier one
    \* ---- fastr backend: state of the job graph and its working directory
    tempfolder,         \* TRUE while the working directory exists
    parameter_files,    \* sequence of chunks, each a sequence of candidates
    job,                \* <<file, split>> -> "pending", "done", "missing", "corrupt"
    execution_plugin,   \* execution_plugin of network.execute, "unset" before
    scoring,            \* the metric of the running create_ensemble call
    Y_valid_score,      \* its precomputed validation scores [fold][row][sample]
    \* ---- attributes set by process_fit
    cv_results_,        \* the result table
    best_index_,        \* index of the best row, -1 while unset
    best_featlab,       \* feature labels promoted to the best state
    best_fitted,        \* the best_* preprocessing artifacts
    best_estimator_,    \* configuration the refit estimator was built with
    \* ---- the class of the object and its external collaborators in
    \* ---- create_ensemble and the prediction methods
    kind,               \* "randomized" or "grid": type(self)
    estimator_methods,  \* the methods the underlying estimator provides
    valid_scoring,      \* the validation scoring function (see Performance)
    member_predict,     \* configuration -> sample -> label its refit predicts
    \* ---- attribute set by create_ensemble
    ensemble,           \* self.ensemble: the members, <<>> for list()
    \* ---- control state of create_ensemble and of the prediction methods
    ens_pc,             \* "idle", or "greedy" inside the Caruana while loop
    ens_call,           \* arguments and outcome of the latest create_ensemble
    locals,             \* local variables of create_ensemble (Caruana)
    called              \* the prediction call, if the latest operation is one

vars == <<backend, maxlen, iid, refit, return_train_score, n_jobs,
          n_jobspercore, n_cand, n_splits, score, counts, pc, error, raw,
          dispatched, out, overtaken, tempfolder, parameter_files, job,
          cv_results_, best_index_, best_featlab, best_fitted,
          best_estimator_, kind, estimator_methods, valid_scoring,
          member_predict, ensemble, ens_pc, ens_call, locals, called,
          plugin_arg, fastr_plugin, execution_plugin, scoring,
          Y_valid_score>>

\* the locals of create_ensemble that hold the precomputed scores
cachevars == <<scoring, Y_valid_score>>

\* the variables of the execution-plugin selector
pluginvars == <<plugin_arg, fastr_plugin, execution_plugin>>

\* the variables of the search itself
fitvars == <<backend, maxlen, iid, refit, return_train_score, n_jobs,
             n_jobspercore, n_cand, n_splits, score, counts, pc, error, raw,
             dispatched, out, overtaken, tempfolder, parameter_files, job,
             cv_results_, best_index_, best_featlab, best_fitted,
             best_estimator_, plugin_arg, fastr_plugin, execution_plugin,
             scoring, Y_valid_score>>

\* the variables of create_ensemble and of the prediction methods
ensvars == <<kind, estimator_methods, valid_scoring, member_predict,
             ensemble, ens_pc, ens_call, locals, called>>

\* ------------------------------------------------------------------------
\* Bounds of the model
\* ------------------------------------------------------------------------
MaxCand == 3        \* candidates per search (reduction specification)
MaxSplits == 2      \* cross-validation splits per search
MaxRetain == 3      \* largest retention cap tried
ScoreVals == {5, 9}     \* test scores in tenths (0.5 and 0.9)

\* ------------------------------------------------------------------------
\* Python / numpy helpers
\* ------------------------------------------------------------------------
None == <<>>

At(seq, i) == seq[i + 1]

Range0(n) == 0 .. (n - 1)

RECURSIVE SumSeq(_)
SumSeq(s) == IF s = <<>> THEN 0 ELSE Head(s) + SumSeq(Tail(s))

\* seq[::n]
EveryNth(seq, n) ==
    [k \in 1 .. ((Len(seq) + n - 1) \div n) |-> seq[(k - 1) * n + 1]]

\* seq[:n]
Prefix(seq, n) ==
    [k \in 1 .. (IF n < Len(seq) THEN n ELSE Len(seq)) |-> seq[k]]

\* comparison of the rationals <<a, b>> (b > 0) that model floats
RatLess(x, y) == x[1] * y[2] < y[1] * x[2]
RatEq(x, y) == x[1] * y[2] = y[1] * x[2]
RatNeg(x) == <<0 - x[1], x[2]>>

\* lexicographic order of Python tuples (key, index), key a rational
KeyIdxLeq(p, q) == RatLess(p[1], q[1]) \/ (RatEq(p[1], q[1]) /\ p[2] <= q[2])

RECURSIVE SortKeyIdx(_)
SortKeyIdx(S) ==
    IF S = {} THEN <<>>
    ELSE LET m == CHOOSE p \in S : \A q \in S : KeyIdxLeq(p, q)
         IN  <<m>> \o SortKeyIdx(S \ {m})

\* np.argsort(a, kind='mergesort'): stable, 0-based indices
argsort(a) ==
    LET sorted == SortKeyIdx({<<a[k], k - 1>> : k \in 1 .. Len(a)})
    IN  [k \in 1 .. Len(a) |-> sorted[k][2]]

\* the elements of a finite set of integers in ascending order
RECURSIVE SortedSeq(_)
SortedSeq(S) ==
    IF S = {} THEN <<>>
    ELSE LET m == CHOOSE x \in S : \A y \in S : x <= y
         IN  <<m>> \o SortedSeq(S \ {m})

\* method='ordinal': every element its own rank, ties in index order
rankdata_ordinal(a) ==
    LET n == Len(a)
        sorter == argsort(a)
    IN  [i \in 1 .. n |-> CHOOSE p \in 1 .. n : sorter[p] = i - 1]
\* scipy.stats.rankdata(a, method='min'), as scipy computes it: sort, mark
\* the first element of every run of equal values (obs), number the runs
\* (dense) and give every element the 0-based position at which its run
\* starts (count), plus one.
rankdata(a) ==
    LET n == Len(a)
        sorter == argsort(a)
        inv == [i \in 1 .. n |-> CHOOSE p \in 1 .. n : sorter[p] = i - 1]
        arr == [k \in 1 .. n |-> At(a, sorter[k])]
        obs == [k \in 1 .. n |-> (k = 1) \/ ~RatEq(arr[k], arr[k - 1])]
        cumsum == [k \in 1 .. n |-> Cardinality({q \in 1 .. k : obs[q]})]
        dense == [i \in 1 .. n |-> cumsum[inv[i]]]
        count == SortedSeq({k - 1 : k \in {q \in 1 .. n : obs[q]}}) \o <<n>>
    IN  [i \in 1 .. n |-> count[dense[i]] + 1]

\* ------------------------------------------------------------------------
\* The external fit-and-score task and the raw result list
\* ------------------------------------------------------------------------
\* One raw result: the tuple fit_and_score returns for candidate c on split
\* s.  params stands for both params_est and params_all of the candidate,
\* featlab and fitted for the feature labels and the fitted preprocessing
\* artifacts, which are specific to the (candidate, split) fit.
\* the train score (tenths) and the fit and score times (tenths of a second)
\* of the task for candidate c on split s
TrainScore(c, s) == score[<<c, s>>] + 1
FitTime(c, s) == 2 + s
ScoreTime(c, s) == 1 + ((c + s) % 2)

fit_and_score(c, s) ==
    [cand |-> c, split |-> s, test_score |-> score[<<c, s>>],
     n_test |-> counts[s], params |-> c, featlab |-> <<c, s>>,
     fitted |-> <<c, s>>, train_score |-> TrainScore(c, s),
     fit_time |-> FitTime(c, s), score_time |-> ScoreTime(c, s)]

\* the task generator of BaseSearchCVJoblib._fit: candidate-major
TaskOfSplitMajor(k) == <<k % n_cand, k \div n_cand>>
TaskOf(k) == <<k \div n_splits, k % n_splits>>

NTasks == n_cand * n_splits

\* ------------------------------------------------------------------------
\* process_fit: the reduction
\* ------------------------------------------------------------------------
\* array.reshape(n_candidates, n_splits)[r, :]
Row(array, r, ns) == [s \in 1 .. ns |-> array[r * ns + s]]

\* np.average(row, weights=weights)
average(row, weights) ==
    IF weights = None
    THEN <<SumSeq(row), Len(row)>>
    ELSE <<SumSeq([k \in 1 .. Len(row) |-> row[k] * weights[k]]),
           SumSeq(weights)>>

\* weights argument of the _store call for test_score
TestScoreWeightsNever(iidflag, test_sample_counts) == None
TestScoreWeights(iidflag, test_sample_counts) ==
    IF iidflag THEN test_sample_counts ELSE None

\* results['mean_test_score'] for n rows of ns splits
array_means(test_scores, n, ns, weights) ==
    [r \in 1 .. n |-> average(Row(test_scores, r - 1, ns), weights)]

\* the square of results['std_...'] for n rows of ns splits:
\* np.average((array - array_means[:, np.newaxis]) ** 2, axis=1,
\* weights=weights), of which np.sqrt is stored
Square(x) == x * x
row_var(row, w, m) ==
    <<SumSeq([k \in 1 .. Len(row) |-> w[k] * Square(row[k] * m[2] - m[1])]),
      Square(m[2]) * SumSeq(w)>>
array_vars(array, n, ns, weights) ==
    [r \in 1 .. n |->
        row_var(Row(array, r - 1, ns),
                IF weights = None THEN [k \in 1 .. ns |-> 1] ELSE weights,
                average(Row(array, r - 1, ns), weights))]

\* the key_name of the four _store calls
StoreKeys == {"test_score", "train_score", "fit_time", "score_time"}

\* the weights argument of the four _store calls, by key_name: only the
\* call for test_score passes weights
StoreWeightsAll(key_name, iidflag, test_sample_counts) ==
    IF iidflag THEN test_sample_counts ELSE None
StoreWeights(key_name, iidflag, test_sample_counts) ==
    IF key_name = "test_score"
    THEN TestScoreWeights(iidflag, test_sample_counts)
    ELSE None

\* results['rank_test_score'] = rankdata(-array_means, method='min')
RankTestScoreAscending(means) == rankdata(means)
RankTestScore(means) == rankdata([k \in 1 .. Len(means) |-> RatNeg(means[k])])

\* sorted(zip(ranked_test_scores, indices)), then the indices
RECURSIVE SortPairs(_)
SortPairs(S) ==
    IF S = {} THEN <<>>
    ELSE LET m == CHOOSE p \in S : \A q \in S :
                      (p[1] < q[1]) \/ (p[1] = q[1] /\ p[2] <= q[2])
         IN  <<m>> \o SortPairs(S \ {m})

sortedindices_high_first(ranks) ==
    LET n == Len(ranks)
        sorted == SortPairs({<<ranks[k], n - k>> : k \in 1 .. n})
    IN  [k \in 1 .. n |-> n - 1 - sorted[k][2]]
sortedindices(ranks) ==
    LET sorted == SortPairs({<<ranks[k], k - 1>> : k \in 1 .. Len(ranks)})
    IN  [k \in 1 .. Len(ranks) |-> sorted[k][2]]

\* bestindices = sortedindices[0:maxlen], maxlen = min(self.maxlen, n)
BestIndicesOneMore(ranks, cap) ==
    LET n == Len(ranks)
        m == IF cap + 1 < n THEN cap + 1 ELSE n
    IN  [k \in 1 .. m |-> sortedindices(ranks)[k]]
BestIndicesTail(ranks, cap) ==
    LET n == Len(ranks)
        m == IF cap < n THEN cap ELSE n
    IN  [k \in 1 .. m |-> sortedindices(ranks)[n - m + k]]
BestIndices(ranks, cap) ==
    LET n == Len(ranks)
        m == IF cap < n THEN cap ELSE n
    IN  [k \in 1 .. m |-> sortedindices(ranks)[k]]

\* np.asarray(column)[bestindices]
Take(column, bestindices) ==
    [k \in 1 .. Len(bestindices) |-> At(column, bestindices[k])]

\* the feature_labels_temp loop: the labels whose number is in bestindices,
\* in the order of the candidates
FilterLabels(labels, bestindices) ==
    LET kept == SortedSeq({bestindices[k] : k \in 1 .. Len(bestindices)})
    IN  [k \in 1 .. Len(kept) |-> At(labels, kept[k])]

\* np.flatnonzero(results["rank_test_score"] == 1): 0-based, ascending
RankOneRows(ranks) == SortedSeq({k - 1 : k \in {q \in 1 .. Len(ranks) : ranks[q] = 1}})

EmptyTable ==
    [mean_test_score |-> <<>>, rank_test_score |-> <<>>,
     split_test_score |-> <<>>, params |-> <<>>, params_all |-> <<>>,
     std_squared |-> [key_name \in StoreKeys |-> <<>>]]

Failure(exc) ==
    [ok |-> FALSE, exc |-> exc, results |-> EmptyTable,
     best_index |-> 0 - 1, best_featlab |-> None, best_fitted |-> None,
     best_parameters_est |-> 0 - 1, feature_labels |-> <<>>,
     fitted_objects |-> <<>>, bestindices |-> <<>>]

\* The value process_fit computes from the raw list rawlist, for n_splits =
\* ns, self.maxlen = cap and self.iid = iidflag.  ok is FALSE when the call
\* raises: the reshape to (n_candidates, n_splits) raises ValueError unless
\* the length of the raw list is a multiple of n_splits, and taking element
\* 0 of the rows of rank 1 raises IndexError when there is none.
process_fit(rawlist, ns, cap, iidflag) ==
    LET candidate_params == EveryNth([k \in 1 .. Len(rawlist) |-> rawlist[k].params], ns)
        feature_labels == EveryNth([k \in 1 .. Len(rawlist) |-> rawlist[k].featlab], ns)
        fitted_objects == EveryNth([k \in 1 .. Len(rawlist) |-> rawlist[k].fitted], ns)
        n == Len(candidate_params)
        test_sample_counts == Prefix([k \in 1 .. Len(rawlist) |-> rawlist[k].n_test], ns)
        test_scores == [k \in 1 .. Len(rawlist) |-> rawlist[k].test_score]
    IN  IF Len(rawlist) # n * ns THEN Failure("ValueError")
        ELSE
        LET means == array_means(test_scores, n, ns,
                                 TestScoreWeights(iidflag, test_sample_counts))
            ranks == RankTestScore(means)
            splits == [r \in 1 .. n |-> Row(test_scores, r - 1, ns)]
            bestindices == BestIndices(ranks, cap)
            results == [mean_test_score |-> Take(means, bestindices),
                        rank_test_score |-> Take(ranks, bestindices),
                        split_test_score |-> Take(splits, bestindices),
                        params |-> Take(candidate_params, bestindices),
                        params_all |-> Take(candidate_params, bestindices),
                        std_squared |->
                            [key_name \in StoreKeys |->
                                Take(array_vars(
                                         [k \in 1 .. Len(rawlist) |->
                                             rawlist[k][key_name]],
                                         n, ns,
                                         StoreWeights(key_name, iidflag,
                                                      test_sample_counts)),
                                     bestindices)]]
            labels == FilterLabels(feature_labels, bestindices)
            fitted == Take(fitted_objects, bestindices)
            rankone == RankOneRows(results.rank_test_score)
        IN  IF rankone = <<>> THEN Failure("IndexError")
            ELSE [ok |-> TRUE, exc |-> "none", results |-> results,
                  best_index |-> rankone[1],
                  best_featlab |-> At(labels, rankone[1]),
                  best_fitted |-> At(fitted, rankone[1]),
                  best_parameters_est |-> At(results.params, rankone[1]),
                  feature_labels |-> labels, fitted_objects |-> fitted,
                  bestindices |-> bestindices]

\* ------------------------------------------------------------------------
\* Initial states: the search object after construction, together with the
\* arguments of the fit call and the behaviour of the external tasks
\* ------------------------------------------------------------------------
\* fastr_plugin=None
NoPlugin == "None"

\* the method argument of create_ensemble: an int K, or a string
TopK(k) == [K |-> k, name |-> "int"]
Named(n) == [K |-> 0 - 1, name |-> n]

\* the six prediction methods of BaseSearchCV
PredictionMethods ==
    {"predict", "predict_proba", "predict_log_proba", "decision_function",
     "transform", "inverse_transform"}

\* self.ensemble = list() of the constructor, and Ensemble(estimators)
EmptyList == [type |-> "list", estimators |-> <<>>]
Ensemble(estimators) == [type |-> "Ensemble", estimators |-> estimators]
n_estimators(e) == Len(e.estimators)

NoCall ==
    [method |-> Named("none"), initialize |-> FALSE, outcome |-> "none",
     previous |-> EmptyList, selection |-> <<>>]
NoLocals ==
    [best_performance |-> [v |-> <<0, 1>>, t |-> 0, eps |-> 0],
     new_performance |-> <<0, 1>>, iteration |-> 0, ensemble |-> <<>>,
     y_score |-> <<>>, best_index |-> 0, performances_temp |-> <<>>,
     performances_n_class |-> <<>>, new_tiny |-> 0, tiny_temp |-> <<>>,
     tiny_n_class |-> <<>>]
NotCalled ==
    [method |-> "none", X |-> <<>>, when |-> "none", result |-> "none",
     value |-> <<>>]

\* an SVC with probability=True as the estimator, a label-0 predictor for
\* every configuration, and a scoring function that gives every ensemble 1/2
DefaultCollaborators ==
    /\ kind = "randomized"
    /\ plugin_arg = NoPlugin
    /\ estimator_methods = PredictionMethods \ {"transform", "inverse_transform"}
    /\ valid_scoring = [m |-> 0, q |-> <<>>]
    /\ member_predict = <<>>

\* RandomizedSearchCVfastr.__init__ hands fastr_plugin=None to
\* BaseSearchCV.__init__, which stores its argument
ConstructorPlugin(arg) == NoPlugin

Unfitted ==
    /\ fastr_plugin = ConstructorPlugin(plugin_arg)
    /\ execution_plugin = "unset"
    /\ scoring = "none"
    /\ Y_valid_score = <<>>
    /\ ensemble = EmptyList
    /\ ens_pc = "idle"
    /\ ens_call = NoCall
    /\ locals = NoLocals
    /\ called = NotCalled
    /\ pc = "constructed"
    /\ error = "none"
    /\ raw = <<>>
    /\ dispatched = 0
    /\ out = <<>>
    /\ overtaken = FALSE
    /\ tempfolder = FALSE
    /\ parameter_files = <<>>
    /\ job = <<>>
    /\ cv_results_ = EmptyTable
    /\ best_index_ = 0 - 1
    /\ best_featlab = None
    /\ best_fitted = None
    /\ best_estimator_ = 0 - 1

\* the test-sample counts of the splits: 3 and 7 in turn
ParityCount(s) == IF s % 2 = 0 THEN 3 ELSE 7

\* Search through the joblib backend, every test score drawn freely
Init ==
    /\ backend = "joblib"
    /\ maxlen \in 1 .. MaxRetain
    /\ iid \in BOOLEAN
    /\ refit \in BOOLEAN
    /\ return_train_score \in BOOLEAN
    /\ n_jobs = 1
    /\ n_jobspercore = 1
    /\ n_cand \in 1 .. MaxCand
    /\ n_splits \in 1 .. MaxSplits
    /\ score \in [Range0(n_cand) \X Range0(n_splits) -> ScoreVals]
    /\ counts = [s \in Range0(n_splits) |-> ParityCount(s)]
    /\ DefaultCollaborators
    /\ Unfitted

\* ------------------------------------------------------------------------
\* The tail shared by both _fit methods: the call of process_fit
\* ------------------------------------------------------------------------
Raise(exc) ==
    /\ pc' = "failed"
    /\ error' = exc
    /\ UNCHANGED <<cv_results_, best_index_, best_featlab, best_fitted,
                   best_estimator_>>

\* self.process_fit(..., train_scores=train_scores, ...) on the raw list
\* rawlist: train_scores is bound only when return_train_score is set, so
\* evaluating the argument raises otherwise; process_fit then either raises
\* or stores the table and the best state and, if refit, fits the best
\* estimator. The table, best_index_ and the best_* attributes are assigned
\* before the refit block; best_estimator.fit is the estimator's own code
\* and may raise, and then the assignment of best_estimator_ is not reached.
CallProcessFit(rawlist) ==
    LET r == process_fit(rawlist, n_splits, maxlen, iid)
    IN  IF ~return_train_score THEN Raise("UnboundLocalError")
        ELSE IF ~r.ok THEN Raise(r.exc)
        ELSE /\ cv_results_' = r.results
             /\ best_index_' = r.best_index
             /\ best_featlab' = r.best_featlab
             /\ best_fitted' = r.best_fitted
             /\ \E fit_raises \in BOOLEAN :
                    IF refit /\ fit_raises
                    THEN /\ pc' = "failed"
                         /\ error' = "RefitError"
                         /\ best_estimator_' = best_estimator_
                    ELSE /\ pc' = "fitted"
                         /\ error' = "none"
                         /\ best_estimator_' =
                                IF refit THEN r.best_parameters_est
                                ELSE best_estimator_

\* ------------------------------------------------------------------------
\* Joblib backend
\* ------------------------------------------------------------------------
\* what Parallel(...)(delayed(fit_and_score)(...) for parameters in
\* parameter_iterable for train, test in cv_iter) returns: one result per
\* task, in the order the generator produced the tasks
ParallelOut ==
    [k \in 1 .. NTasks |-> fit_and_score(TaskOf(k - 1)[1], TaskOf(k - 1)[2])]

\* fit on a joblib search object, as one step; with error_score='raise'
\* an exception of a task leaves Parallel and _fit before process_fit
FitJoblib ==
    /\ backend = "joblib"
    /\ pc = "constructed"
    /\ \E task_raises \in BOOLEAN :
          IF task_raises
          THEN raw' = raw /\ Raise("TaskError")
          ELSE raw' = ParallelOut /\ CallProcessFit(ParallelOut)
    /\ UNCHANGED ensvars
    /\ UNCHANGED pluginvars
    /\ UNCHANGED cachevars
    /\ UNCHANGED <<backend, maxlen, iid, refit, return_train_score, n_jobs,
                   n_jobspercore, n_cand, n_splits, score, counts,
                   dispatched, out, overtaken, tempfolder, parameter_files,
                   job>>

Next == FitJoblib

Spec == Init /\ [][Next]_vars


\* ------------------------------------------------------------------------
\* Joblib backend, the Parallel call step by step
\* ------------------------------------------------------------------------
MaxCandL == 2       \* candidates per search (joblib and fastr step models)
MaxSplitsL == 2     \* splits per search (joblib and fastr step models)
MaxJobs == 2        \* largest worker pool / largest chunk size tried

\* the deterministic task results of the step-by-step backend models:
\* candidate c scores 0.9 on the splits of its own parity, 0.5 on the others
ParityScore(c, s) == IF (c + s) % 2 = 0 THEN 9 ELSE 5

InitSteps ==
    /\ maxlen \in 1 .. MaxCandL
    /\ iid \in BOOLEAN
    /\ refit = TRUE
    /\ return_train_score \in BOOLEAN
    /\ n_cand \in 1 .. MaxCandL
    /\ n_splits \in 1 .. MaxSplitsL
    /\ score = [t \in Range0(n_cand) \X Range0(n_splits) |-> ParityScore(t[1], t[2])]
    /\ counts = [s \in Range0(n_splits) |-> ParityCount(s)]
    /\ DefaultCollaborators
    /\ Unfitted

InitLocal ==
    /\ backend = "joblib"
    /\ n_jobs \in 1 .. MaxJobs
    /\ n_jobspercore = 1
    /\ InitSteps

\* pre_dispatch = '2*n_jobs': the number of tasks the pool holds at a time
pre_dispatch == 2 * n_jobs

Done == {k \in DOMAIN out : out[k] # None}

\* _fit up to the Parallel call: the splits are listed, no task has run
JoblibStart ==
    /\ backend = "joblib"
    /\ pc = "constructed"
    /\ pc' = "running"
    /\ dispatched' = 0
    /\ out' = [k \in Range0(NTasks) |-> None]
    /\ UNCHANGED ensvars
    /\ UNCHANGED pluginvars
    /\ UNCHANGED cachevars
    /\ UNCHANGED <<backend, maxlen, iid, refit, return_train_score, n_jobs,
                   n_jobspercore, n_cand, n_splits, score, counts, error,
                   raw, overtaken, tempfolder, parameter_files, job,
                   cv_results_,
                   best_index_, best_featlab, best_fitted, best_estimator_>>

\* the pool takes the next task of the generator
Dispatch ==
    /\ backend = "joblib"
    /\ pc = "running"
    /\ dispatched < NTasks
    /\ dispatched - Cardinality(Done) < pre_dispatch
    /\ dispatched' = dispatched + 1
    /\ UNCHANGED ensvars
    /\ UNCHANGED pluginvars
    /\ UNCHANGED cachevars
    /\ UNCHANGED <<backend, maxlen, iid, refit, return_train_score, n_jobs,
                   n_jobspercore, n_cand, n_splits, score, counts, pc, error,
                   raw, out, overtaken, tempfolder, parameter_files, job,
                   cv_results_, best_index_, best_featlab, best_fitted,
                   best_estimator_>>

\* a worker finishes the task with index k; its result goes to slot k
Complete(k) ==
    /\ backend = "joblib"
    /\ pc = "running"
    /\ k < dispatched
    /\ out[k] = None
    /\ out' = [out EXCEPT ![k] = fit_and_score(TaskOf(k)[1], TaskOf(k)[2])]
    /\ overtaken' = (overtaken \/ \E i \in Range0(k) : out[i] = None)
    /\ UNCHANGED ensvars
    /\ UNCHANGED pluginvars
    /\ UNCHANGED cachevars
    /\ UNCHANGED <<backend, maxlen, iid, refit, return_train_score, n_jobs,
                   n_jobspercore, n_cand, n_splits, score, counts, pc, error,
                   raw, dispatched, tempfolder, parameter_files, job,
                   cv_results_, best_index_, best_featlab, best_fitted,
                   best_estimator_>>

\* Parallel returns the slots in order; _fit unzips them and calls
\* process_fit
Gather ==
    /\ backend = "joblib"
    /\ pc = "running"
    /\ Cardinality(Done) = NTasks
    /\ raw' = [k \in 1 .. NTasks |-> out[k - 1]]
    /\ CallProcessFit([k \in 1 .. NTasks |-> out[k - 1]])
    /\ UNCHANGED ensvars
    /\ UNCHANGED pluginvars
    /\ UNCHANGED cachevars
    /\ UNCHANGED <<backend, maxlen, iid, refit, return_train_score, n_jobs,
                   n_jobspercore, n_cand, n_splits, score, counts,
                   dispatched, out, overtaken, tempfolder, parameter_files,
                   job>>

NextLocal ==
    \/ JoblibStart
    \/ Dispatch
    \/ \E k \in Range0(NTasks) : Complete(k)
    \/ Gather

SpecLocal == InitLocal /\ [][NextLocal]_vars

\* ------------------------------------------------------------------------
\* Fastr backend: the job graph and its working directory
\* ------------------------------------------------------------------------
InitFastr ==
    /\ backend = "fastr"
    /\ n_jobs = 1
    /\ n_jobspercore \in 1 .. MaxJobs
    /\ InitSteps

\* every order in which the elements of S can be listed
RECURSIVE Perms(_)
Perms(S) ==
    IF S = {} THEN {<<>>}
    ELSE UNION {{<<x>> \o p : p \in Perms(S \ {x})} : x \in S}

Min2(a, b) == IF a < b THEN a ELSE b

\* chunks(l, n): successive n-sized chunks of l
chunks_full_only(l, n) ==
    [i \in 1 .. (Len(l) \div n) |->
        SubSeq(l, (i - 1) * n + 1, Min2(i * n, Len(l)))]

chunks(l, n) ==
    [i \in 1 .. ((Len(l) + n - 1) \div n) |->
        SubSeq(l, (i - 1) * n + 1, Min2(i * n, Len(l)))]

Jobs == Range0(Len(parameter_files)) \X Range0(n_splits)

\* _fit up to the call of network.execute, which is given
\* execution_plugin=self.fastr_plugin: the working directory is created, the
\* candidates are numbered and their numbers, in the order the dictionary
\* parameters_temp lists its keys (any order), are cut into one parameter
\* file per chunk; the graph has one job per (parameter file, split).
FastrSubmit ==
    /\ backend = "fastr"
    /\ pc = "constructed"
    /\ \E keys \in Perms(Range0(n_cand)) :
           /\ parameter_files' = chunks(keys, n_jobspercore)
           /\ job' = [j \in Range0(Len(chunks(keys, n_jobspercore)))
                              \X Range0(n_splits) |-> "pending"]
    /\ tempfolder' = TRUE
    /\ execution_plugin' = fastr_plugin
    /\ pc' = "running"
    /\ UNCHANGED ensvars
    /\ UNCHANGED <<plugin_arg, fastr_plugin>>
    /\ UNCHANGED cachevars
    /\ UNCHANGED <<backend, maxlen, iid, refit, return_train_score, n_jobs,
                   n_jobspercore, n_cand, n_splits, score, counts, error,
                   raw, dispatched, out, overtaken, cv_results_,
                   best_index_, best_featlab, best_fitted, best_estimator_>>

\* the output bundle of the job for parameter file f and split s: one
\* result per candidate of the file
JobOutput(f, s) ==
    [k \in 1 .. Len(At(parameter_files, f)) |->
        fit_and_score(At(parameter_files, f)[k], s)]

\* a job of the graph ends: it wrote its output ("done"), wrote nothing
\* ("missing") or left an output that cannot be read ("corrupt")
JobFinish(j, outcome) ==
    /\ backend = "fastr"
    /\ pc = "running"
    /\ j \in DOMAIN job
    /\ job[j] = "pending"
    /\ job' = [job EXCEPT ![j] = outcome]
    /\ UNCHANGED ensvars
    /\ UNCHANGED pluginvars
    /\ UNCHANGED cachevars
    /\ UNCHANGED <<backend, maxlen, iid, refit, return_train_score, n_jobs,
                   n_jobspercore, n_cand, n_splits, score, counts, pc, error,
                   raw, dispatched, out, overtaken, tempfolder,
                   parameter_files, cv_results_, best_index_, best_featlab,
                   best_fitted, best_estimator_>>

\* save_data after the loop over sink_files: the bundles in listing order
RECURSIVE ReadAll(_)
ReadAll(files) ==
    IF files = <<>> THEN <<>>
    ELSE JobOutput(Head(files)[1], Head(files)[2]) \o ReadAll(Tail(files))

\* network.execute has returned.  glob lists the output files that exist,
\* in any order; every file is read (an unreadable one raises and leaves
\* the directory); zip(*save_data) raises ValueError, reported as
\* PREDICTValueError, when nothing was read; otherwise the directory is
\* removed and process_fit is called.
FastrCollect ==
    /\ backend = "fastr"
    /\ pc = "running"
    /\ \A j \in DOMAIN job : job[j] # "pending"
    /\ \E sink_files \in Perms({j \in DOMAIN job : job[j] \in {"done", "corrupt"}}) :
           IF \E j \in DOMAIN job : job[j] = "corrupt"
           THEN /\ Raise("IOError")
                /\ UNCHANGED <<raw, tempfolder>>
           ELSE IF ReadAll(sink_files) = <<>>
           THEN /\ Raise("PREDICTValueError")
                /\ UNCHANGED <<raw, tempfolder>>
           ELSE /\ tempfolder' = FALSE
                /\ raw' = ReadAll(sink_files)
                /\ CallProcessFit(ReadAll(sink_files))
    /\ UNCHANGED ensvars
    /\ UNCHANGED pluginvars
    /\ UNCHANGED cachevars
    /\ UNCHANGED <<backend, maxlen, iid, refit, return_train_score, n_jobs,
                   n_jobspercore, n_cand, n_splits, score, counts,
                   dispatched, out, overtaken, parameter_files, job>>

NextFastr ==
    \/ FastrSubmit
    \/ \E j \in Jobs, outcome \in {"done", "missing", "corrupt"} :
           JobFinish(j, outcome)
    \/ FastrCollect

SpecFastr == InitFastr /\ [][NextFastr]_vars

(***************************************************************************)
(* The submission of a fastr search alone: the constructor arguments, the  *)
(* parameter files and the call of network.execute.                        *)
(***************************************************************************)
MaxCandC == 4       \* candidates per submitted search
MaxJobsC == 3       \* largest n_jobspercore tried

\* values a caller may give as fastr_plugin
Plugins == {NoPlugin, "ProcessPoolExecution", "DRMAAExecution"}

InitSubmit ==
    /\ backend = "fastr"
    /\ kind = "randomized"
    /\ plugin_arg \in Plugins
    /\ n_jobs = 1
    /\ n_jobspercore \in 1 .. MaxJobsC
    /\ maxlen = MaxCandC
    /\ iid = TRUE
    /\ refit = TRUE
    /\ return_train_score = TRUE
    /\ n_cand \in 1 .. MaxCandC
    /\ n_splits = 1
    /\ score = [t \in Range0(n_cand) \X Range0(n_splits) |-> ParityScore(t[1], t[2])]
    /\ counts = [s \in Range0(n_splits) |-> ParityCount(s)]
    /\ estimator_methods = PredictionMethods \ {"transform", "inverse_transform"}
    /\ valid_scoring = [m |-> 0, q |-> <<>>]
    /\ member_predict = <<>>
    /\ Unfitted

SpecSubmit == InitSubmit /\ [][FastrSubmit]_vars

\* ------------------------------------------------------------------------
\* Properties of the reduction
\* ------------------------------------------------------------------------
\* The mean test score of candidate c as the documentation defines it:
\* weighted by the test-sample counts of the splits in iid mode, the plain
\* arithmetic mean otherwise.
WeightedMean(c) ==
    <<SumSeq([k \in 1 .. n_splits |-> counts[k - 1] * score[<<c, k - 1>>]]),
      SumSeq([k \in 1 .. n_splits |-> counts[k - 1]])>>
PlainMean(c) ==
    <<SumSeq([k \in 1 .. n_splits |-> score[<<c, k - 1>>]]), n_splits>>
MeanOf(c) == IF iid THEN WeightedMean(c) ELSE PlainMean(c)

\* candidates with a strictly greater mean test score than c
Better(c) == {d \in Range0(n_cand) : RatLess(MeanOf(c), MeanOf(d))}
IsBest(c) == Better(c) = {}

Rows == 1 .. Len(cv_results_.params)
MinOf(a, b) == IF a < b THEN a ELSE b

\* the reduction ran: every task returned and fit went past the evaluation
\* of the arguments of process_fit
Reduced ==
    /\ pc # "constructed" /\ pc # "running"
    /\ return_train_score /\ error # "TaskError"

\* C1: every reduction with at least one candidate and a retention cap of at
\* least one succeeds and retains a candidate that no candidate of the full,
\* untruncated set beats, in a row of rank 1.
C1_BestRetained ==
    Reduced =>
        /\ error \in {"none", "RefitError"}
        /\ \E k \in Rows : /\ IsBest(cv_results_.params[k])
                           /\ cv_results_.rank_test_score[k] = 1

C1_Witness ==
    /\ pc = "fitted"
    /\ maxlen < n_cand
    /\ ~IsBest(0)
    /\ \E k \in Rows : IsBest(cv_results_.params[k])

\* C2: after a successful reduction every per-candidate column of the result
\* table has exactly min(maxlen, n_candidates) rows, n_candidates being the
\* number of raw results divided by n_splits.
C2_TableLength ==
    pc = "fitted" =>
        LET rows == MinOf(maxlen, Len(raw) \div n_splits)
        IN  /\ Len(cv_results_.mean_test_score) = rows
            /\ Len(cv_results_.rank_test_score) = rows
            /\ Len(cv_results_.split_test_score) = rows
            /\ Len(cv_results_.params) = rows
            /\ Len(cv_results_.params_all) = rows

C2_Witness ==
    /\ pc = "fitted"
    /\ maxlen < n_cand
    /\ Len(cv_results_.params) = maxlen
    /\ Len(cv_results_.rank_test_score) = maxlen

\* C3 as stated: after reduction exactly one retained row has rank 1,
\* whatever the scores, ties included.
C3_ExactlyOneRankOne ==
    pc = "fitted" =>
        Cardinality({k \in Rows : cv_results_.rank_test_score[k] = 1}) = 1

\* C3 as amended: after reduction at least one retained row has rank 1; the
\* candidates tied for the best mean test score all have rank 1, so the
\* number of retained rank-1 rows is the smaller of maxlen and the number of
\* candidates that attain the best mean, and best_index_ is the first.
C3_RankOneRows ==
    pc = "fitted" =>
        LET ones == {k \in Rows : cv_results_.rank_test_score[k] = 1}
        IN  /\ ones # {}
            /\ Cardinality(ones) =
                   MinOf(maxlen, Cardinality({c \in Range0(n_cand) : IsBest(c)}))
            /\ best_index_ + 1 \in ones
            /\ \A k \in ones : best_index_ + 1 <= k

C3_Witness ==
    /\ pc = "fitted"
    /\ Cardinality({k \in Rows : cv_results_.rank_test_score[k] = 1}) = 2
    /\ Len(cv_results_.params) = 3

\* C4: the rank of a retained candidate is one plus the number of candidates
\* of the full set with a strictly greater mean test score (ties share the
\* lowest rank), also after truncation, and a row of rank 1 has a mean test
\* score at least that of every other row.
C4_MinRanking ==
    pc = "fitted" =>
        /\ \A k \in Rows :
               cv_results_.rank_test_score[k] =
                   1 + Cardinality(Better(cv_results_.params[k]))
        /\ \A k \in Rows, j \in Rows :
               cv_results_.rank_test_score[k] = 1 =>
                   ~RatLess(cv_results_.mean_test_score[k],
                            cv_results_.mean_test_score[j])

C4_Witness ==
    /\ pc = "fitted"
    /\ maxlen < n_cand
    /\ \E k \in Rows : cv_results_.rank_test_score[k] = 2
    /\ \E c \in Range0(n_cand), d \in Range0(n_cand) :
           c # d /\ RatEq(MeanOf(c), MeanOf(d)) /\ ~IsBest(c)

\* C5: mean_test_score of every row is sum(w_i * s_i) / sum(w_i) over the
\* splits of its candidate in iid mode and the arithmetic mean of the s_i
\* otherwise; for counts (3, 7) and scores (0.9, 0.5) these are 0.62 and
\* 0.70.
C5_MeanTestScore ==
    pc = "fitted" =>
        \A k \in Rows :
            LET c == cv_results_.params[k]
                m == cv_results_.mean_test_score[k]
            IN  /\ iid => RatEq(m, WeightedMean(c))
                /\ ~iid => RatEq(m, PlainMean(c))
                /\ (/\ n_splits = 2
                    /\ counts = (0 :> 3 @@ 1 :> 7)
                    /\ score[<<c, 0>>] = 9
                    /\ score[<<c, 1>>] = 5)
                   => RatEq(m, IF iid THEN <<62, 10>> ELSE <<70, 10>>)

C5_Witness ==
    /\ pc = "fitted"
    /\ iid
    /\ n_splits = 2
    /\ counts = (0 :> 3 @@ 1 :> 7)
    /\ \E k \in Rows :
           /\ cv_results_.split_test_score[k] = <<9, 5>>
           /\ cv_results_.mean_test_score[k] = <<62, 10>>


\* ------------------------------------------------------------------------
\* Properties of the backends
\* ------------------------------------------------------------------------
\* the raw list is in candidate-major, split-minor order
CandidateMajor(rawlist) ==
    \A k \in 1 .. Len(rawlist) :
        /\ rawlist[k].cand = (k - 1) \div n_splits
        /\ rawlist[k].split = (k - 1) % n_splits

Gathered == backend = "joblib" /\ pc \in {"fitted", "failed"}

\* C7: in the joblib backend, whatever order the tasks start and complete
\* in, the gathered raw list has n_candidates * n_splits entries and entry k
\* is the result of candidate k div n_splits on split k mod n_splits.
C7_LocalSubmissionOrder ==
    Gathered =>
        /\ Len(raw) = n_cand * n_splits
        /\ CandidateMajor(raw)
        /\ \A k \in 1 .. Len(raw) :
               raw[k].test_score = score[<<raw[k].cand, raw[k].split>>]

\* some task finished before a task submitted earlier
C7_Witness ==
    /\ Gathered
    /\ Len(raw) = 4
    /\ overtaken
    /\ raw[1].cand = 0 /\ raw[1].split = 0
    /\ raw[2].cand = 0 /\ raw[2].split = 1


AllDone == \A j \in DOMAIN job : job[j] = "done"

\* C6: in the fastr backend the raw list handed to the reducer is in
\* candidate-major, split-minor order, for every order in which the jobs
\* finish and the output files are listed and for every chunking.
C6_FastrCandidateMajor ==
    (backend = "fastr" /\ pc \in {"fitted", "failed"} /\ AllDone) =>
        /\ Len(raw) = n_cand * n_splits
        /\ CandidateMajor(raw)

\* C8: the same candidates, splits and task results give the same result
\* table through the fastr backend as through the joblib backend.
C8_BackendEquivalence ==
    (backend = "fastr" /\ pc = "fitted" /\ AllDone) =>
        LET local == process_fit(ParallelOut, n_splits, maxlen, iid).results
        IN  /\ cv_results_.params = local.params
            /\ cv_results_.rank_test_score = local.rank_test_score
            /\ Len(cv_results_.mean_test_score) = Len(local.mean_test_score)
            /\ \A k \in Rows : RatEq(cv_results_.mean_test_score[k],
                                     local.mean_test_score[k])

\* C9: in the fastr backend, when the output of a job is missing or
\* unreadable, fit fails; no result table is built from the outputs that
\* are present.
C9_MissingOutputFatal ==
    (backend = "fastr" /\ pc = "fitted") => AllDone

\* C10: the working directory of the fastr backend is deleted if and only
\* if fit completes successfully; whenever fit raises after the jobs were
\* submitted, the directory still exists.
C10_TempfolderKeptOnFailure ==
    (backend = "fastr" /\ return_train_score) =>
        /\ pc = "fitted" => ~tempfolder
        /\ pc = "failed" => tempfolder



\* ------------------------------------------------------------------------
\* create_ensemble
\* ------------------------------------------------------------------------
MaxCandE == 3       \* candidates per search (ensemble specification)
MaxSplitsE == 2     \* cross-validation splits (ensemble specification)
MaxPeak == 3        \* largest ensemble size at which a size score peaks
QualityVals == {0, 4, 8}    \* validation quality of a row, in tenths

RECURSIVE GCD(_, _)
GCD(a, b) == IF b = 0 THEN a ELSE GCD(b, a % b)

\* the rational <<a, b>> (a >= 0, b > 0) in lowest terms
RatNorm(x) == LET g == GCD(x[1], x[2]) IN <<x[1] \div g, x[2] \div g>>
RatAdd(x, y) == RatNorm(<<x[1] * y[2] + y[1] * x[2], x[2] * y[2]>>)

RECURSIVE RatSum(_)
RatSum(s) == IF s = <<>> THEN <<0, 1>> ELSE RatAdd(Head(s), RatSum(Tail(s)))

\* np.mean of a sequence of floats
np_mean(s) == LET t == RatSum(s) IN RatNorm(<<t[1], t[2] * Len(s)>>)

\* A float is held as a rational plus a whole number of units of 1e-11,
\* far below the spacing of the rationals: a < b compares the rationals
\* and, if they are equal, the units.
EpsilonUnits == 10      \* 1e-10
TinyStep == 5           \* 5e-11
MaxCreep == 3           \* ensemble size up to which a creeping score rises

FloatLess(a, ta, b, tb) == RatLess(a, b) \/ (RatEq(a, b) /\ ta < tb)

\* l.index(max(l)) and np.argmax, 0-based, for floats l[i] + t[i] * 1e-11
IndexOfMaxT(l, t) ==
    (CHOOSE i \in 1 .. Len(l) :
        /\ \A j \in 1 .. Len(l) : ~FloatLess(l[i], t[i], l[j], t[j])
        /\ \A j \in 1 .. (i - 1) : FloatLess(l[j], t[j], l[i], t[i])) - 1

\* a score that depends on the size k of the ensemble only: it rises
\* strictly up to size m and falls strictly after it
SizeScore(k, m) == <<10 - (IF k < m THEN m - k ELSE k - m), 20>>

\* compute_performance(scoring, Y_valid_truth[fold], y_valid_score_new) where
\* y_valid_score_new is the mean over the rows of np.vstack of the
\* validation scores of the rows listed in stack (a single row is its own
\* mean). The scores are the estimators' and the metric is sklearn's, so the
\* value is given by valid_scoring: a size score when m > 0, else the mean
\* quality of the stacked rows, else 1/2. When m < 0 the value is 1/2 plus
\* TinyPerformance, a part that creeps up by 5e-11 per stacked row up to
\* MaxCreep rows (a metric continuous in the averaged scores, like the
\* 1 - rmse term of sar_score, moves by such amounts).
StackPerformance(fold, stack) ==
    IF valid_scoring.m > 0 THEN SizeScore(Len(stack), valid_scoring.m)
    ELSE IF valid_scoring.q = <<>> THEN <<1, 2>>
    ELSE RatNorm(<<SumSeq([k \in 1 .. Len(stack) |->
                              At(valid_scoring.q, stack[k])]),
                   10 * Len(stack)>>)

TinyPerformance(fold, stack) ==
    IF valid_scoring.m < 0 THEN TinyStep * MinOf(Len(stack), MaxCreep) ELSE 0

\* performances[it, num] of the precomputation, then np.mean(..., axis=0)
single_performances(n_classifiers, n_iter) ==
    [c \in 1 .. n_classifiers |->
        np_mean([f \in 1 .. n_iter |-> StackPerformance(f - 1, <<c - 1>>)])]

\* np.argsort(performances)[::-1]
Reverse(s) == [k \in 1 .. Len(s) |-> s[Len(s) + 1 - k]]
sorted_by_performance(n_classifiers, n_iter) ==
    Reverse(argsort(single_performances(n_classifiers, n_iter)))

\* the locals at the start of the Caruana branch (lines 847-853)
CaruanaLocals ==
    [best_performance |-> [v |-> <<0, 1>>, t |-> 0, eps |-> 0],
     new_performance |-> <<1, 1000>>, iteration |-> 0, ensemble |-> <<>>,
     y_score |-> <<>>, best_index |-> 0, performances_temp |-> <<>>,
     performances_n_class |-> <<>>, new_tiny |-> 0, tiny_temp |-> <<>>,
     tiny_n_class |-> <<>>]

\* one pass of `for dummy in range(0, n_classifiers)` of the sorted
\* initialization: the candidate of the previous pass is appended from
\* the second pass on, then the next candidate of order is scored
\* on top of the stacked scores
SortedInitPass(L, order, n_iter) ==
    LET it == L.iteration
        ens == IF it >= 1 THEN Append(L.ensemble, L.best_index)
               ELSE L.ensemble
        ys == IF it > 1 THEN Append(L.y_score, L.best_index)
              ELSE IF it = 1 THEN <<L.best_index>>
              ELSE L.y_score
        cand == At(order, it)      \* sortedindices[iteration]
        performances_temp ==
            [f \in 1 .. n_iter |->
                IF it = 0 THEN StackPerformance(f - 1, <<cand>>)
                ELSE StackPerformance(f - 1, Append(ys, cand))]
        newp == np_mean(performances_temp)
        \* the units of the mean: the same in every fold
        newt == IF it = 0 THEN TinyPerformance(0, <<cand>>)
                ELSE TinyPerformance(0, Append(ys, cand))
    IN  [L EXCEPT !.best_performance =
                      [v |-> L.new_performance, t |-> L.new_tiny, eps |-> 0],
                  !.ensemble = ens,
                  !.y_score = ys,
                  !.performances_temp = performances_temp,
                  !.new_performance = newp,
                  !.new_tiny = newt,
                  !.performances_n_class = Append(@, newp),
                  !.tiny_n_class = Append(@, newt),
                  !.best_index = cand,
                  !.iteration = it + 1]

RECURSIVE SortedInitLoop(_, _, _, _)
SortedInitLoop(L, order, n_iter, passes) ==
    IF passes = 0 THEN L
    ELSE SortedInitLoop(SortedInitPass(L, order, n_iter),
                        order, n_iter, passes - 1)

\* lines 855-913: the loop, then the prefix of the best-scoring length
SortedInit(n_classifiers, n_iter) ==
    LET L == SortedInitLoop(CaruanaLocals,
                            sorted_by_performance(n_classifiers, n_iter),
                            n_iter, n_classifiers)
        best == IndexOfMaxT(L.performances_n_class, L.tiny_n_class)
        new_performance == At(L.performances_n_class, best)
        new_tiny == At(L.tiny_n_class, best)
        N_models == best + 1
    IN  [L EXCEPT !.new_performance = new_performance,
                  !.new_tiny = new_tiny,
                  !.ensemble = Prefix(L.ensemble, N_models),
                  !.best_performance =
                      [v |-> new_performance, t |-> new_tiny, eps |-> 0]]

\* new_performance > best_performance, where best_performance is
\* v + t * 1e-11 - eps * 1e-10: `best_performance -= 1e-10` is executed
\* once, before the loop, and every pass sets best_performance =
\* new_performance
Improves(L) ==
    FloatLess(L.best_performance.v,
              L.best_performance.t - EpsilonUnits * L.best_performance.eps,
              L.new_performance, L.new_tiny)

\* one pass of `while new_performance > best_performance`: the candidate
\* chosen by the previous pass is appended from the second pass on, then
\* every row is scored, alone in the first pass and on top of the stacked
\* scores afterwards, and the first row of the highest mean score is chosen
GreedyPass(L, initialize, n_classifiers, n_iter) ==
    LET it == L.iteration
        ens == IF it >= 1 THEN Append(L.ensemble, L.best_index)
               ELSE L.ensemble
        ys == IF it > 1 THEN Append(L.y_score, L.best_index)
              ELSE IF it = 1
                   THEN IF ~initialize THEN <<L.best_index>>
                        ELSE Append(L.y_score, L.best_index)
              ELSE L.y_score
        performances_temp ==
            [c \in 1 .. n_classifiers |->
                np_mean([f \in 1 .. n_iter |->
                    IF it = 0 THEN StackPerformance(f - 1, <<c - 1>>)
                    ELSE StackPerformance(f - 1, Append(ys, c - 1))])]
        tiny_temp ==
            [c \in 1 .. n_classifiers |->
                IF it = 0 THEN TinyPerformance(0, <<c - 1>>)
                ELSE TinyPerformance(0, Append(ys, c - 1))]
        best == IndexOfMaxT(performances_temp, tiny_temp)
    IN  [L EXCEPT !.best_performance =
                      [v |-> L.new_performance, t |-> L.new_tiny, eps |-> 0],
                  !.ensemble = ens,
                  !.y_score = ys,
                  !.performances_temp = performances_temp,
                  !.tiny_temp = tiny_temp,
                  !.new_performance = At(performances_temp, best),
                  !.new_tiny = At(tiny_temp, best),
                  !.best_index = best,
                  !.iteration = it + 1]

\* ensemble = range(0, method)
TopKSelectionFromOne(K) == [k \in 1 .. K |-> k]
TopKSelection(K) == [k \in 1 .. K |-> k - 1]

\* the member built for position k of the selection from table row i:
\* a fresh clone, refit with the row's parameters on train = all samples
MemberShared(k, i) ==
    [obj |-> 1, params |-> At(cv_results_.params, i), train |-> "all"]
Member(k, i) ==
    [obj |-> k, params |-> At(cv_results_.params, i), train |-> "all"]

\* an exception leaves create_ensemble: self.ensemble is not assigned
EnsRaise(call, exc) ==
    /\ ens_call' = [call EXCEPT !.outcome = exc]
    /\ ensemble' = ensemble

\* lines 980-999: the parameters of the selected rows are looked up, one
\* clone of base_estimator per entry is refit, and the ensemble is stored.
\* base_estimator is bound only for the two RandomizedSearchCV classes.
Finalize(call, selection) ==
    LET done == [call EXCEPT !.selection = selection]
    IN  IF \E k \in 1 .. Len(selection) :
              selection[k] >= Len(cv_results_.params)
        THEN EnsRaise(done, "IndexError")
        ELSE IF kind = "grid" /\ selection # <<>>
        THEN EnsRaise(done, "UnboundLocalError")
        ELSE /\ ensemble' = Ensemble([k \in 1 .. Len(selection) |->
                                          Member(k, selection[k])])
             /\ ens_call' = [done EXCEPT !.outcome = "returned"]

\* the call of create_ensemble up to the while loop of the Caruana branch;
\* the other branches run to their end
CreateEnsemble(method, initialize) ==
    /\ ens_pc = "idle"
    /\ cv_results_ # EmptyTable
    /\ LET call == [method |-> method, initialize |-> initialize,
                    outcome |-> "running", previous |-> ensemble,
                    selection |-> <<>>]
           n_classifiers == Len(cv_results_.params)
       IN  IF method.name = "int"
           THEN /\ Finalize(call, TopKSelection(method.K))
                /\ ens_pc' = "idle"
                /\ locals' = NoLocals
           ELSE IF method.name = "Caruana"
           THEN IF kind = "grid"
                THEN /\ EnsRaise(call, "UnboundLocalError")
                     /\ ens_pc' = "idle"
                     /\ locals' = NoLocals
                ELSE /\ ens_pc' = "greedy"
                     /\ locals' =
                          [(IF initialize
                            THEN SortedInit(n_classifiers, n_splits)
                            ELSE CaruanaLocals)
                           EXCEPT !.best_performance.eps = 1,
                                  !.iteration = 0]
                     /\ ens_call' = call
                     /\ ensemble' = ensemble
           ELSE /\ ens_call' = [call EXCEPT !.outcome = "warned"]
                /\ ensemble' = ensemble
                /\ ens_pc' = "idle"
                /\ locals' = NoLocals
    /\ called' = NotCalled
    /\ UNCHANGED <<fitvars, kind, estimator_methods, valid_scoring,
                   member_predict>>

\* one pass of the while loop; np.vstack on top of y_score = [None] * n_iter
\* raises
GreedyRound ==
    /\ ens_pc = "greedy"
    /\ Improves(locals)
    /\ IF ens_call.initialize /\ locals.iteration = 1 /\ locals.y_score = <<>>
       THEN /\ EnsRaise(ens_call, "ValueError")
            /\ ens_pc' = "idle"
            /\ locals' = locals
       ELSE /\ locals' = GreedyPass(locals, ens_call.initialize,
                                    Len(cv_results_.params), n_splits)
            /\ UNCHANGED <<ens_pc, ens_call, ensemble>>
    /\ UNCHANGED <<fitvars, kind, estimator_methods, valid_scoring,
                   member_predict, called>>

\* the while condition fails: the selected rows are refit and stored
GreedyExit ==
    /\ ens_pc = "greedy"
    /\ ~Improves(locals)
    /\ Finalize(ens_call, locals.ensemble)
    /\ ens_pc' = "idle"
    /\ locals' = locals
    /\ UNCHANGED <<fitvars, kind, estimator_methods, valid_scoring,
                   member_predict, called>>

\* the validation scoring functions tried for n rows
ScoringFunctions(n) ==
    {[m |-> k, q |-> <<>>] : k \in 1 .. MaxPeak}
        \cup {[m |-> 0, q |-> f] : f \in [1 .. n -> QualityVals]}
        \cup {[m |-> 0 - 1, q |-> <<>>]}

\* the method arguments tried: K up to one more than the rows there can be,
\* 'Caruana', and the default 'Top50'
Methods ==
    {TopK(k) : k \in 0 .. (MaxCandE + 1)}
        \cup {Named("Caruana"), Named("Top50")}

InitEnsemble ==
    /\ backend = "joblib"
    /\ plugin_arg = NoPlugin
    /\ kind \in {"randomized", "grid"}
    /\ maxlen \in 1 .. MaxCandE
    /\ iid = TRUE
    /\ refit = TRUE
    /\ return_train_score = TRUE
    /\ n_jobs = 1
    /\ n_jobspercore = 1
    /\ n_cand \in 1 .. MaxCandE
    /\ n_splits \in 1 .. MaxSplitsE
    /\ score = [t \in Range0(n_cand) \X Range0(n_splits) |->
                    ParityScore(t[1], t[2])]
    /\ counts = [s \in Range0(n_splits) |-> ParityCount(s)]
    /\ estimator_methods = PredictionMethods \ {"transform", "inverse_transform"}
    /\ valid_scoring \in ScoringFunctions(MinOf(maxlen, n_cand))
    /\ member_predict = <<>>
    /\ Unfitted

NextEnsemble ==
    \/ FitJoblib
    \/ \E method \in Methods, initialize \in BOOLEAN :
            CreateEnsemble(method, initialize)
    \/ GreedyRound
    \/ GreedyExit

SpecEnsemble == InitEnsemble /\ [][NextEnsemble]_vars

\* ------------------------------------------------------------------------
\* The prediction methods
\* ------------------------------------------------------------------------
MaxMembers == 3     \* candidates, hence ensemble members (prediction spec.)
Samples == <<1, 2>>     \* the samples of the X handed to a prediction method

\* @if_delegate_has_method(delegate=('best_estimator_', 'estimator')): the
\* attribute exists only if the delegate found first provides the method;
\* best_estimator_ is a clone of estimator, so both provide the same ones
if_delegate_always(name) == TRUE
if_delegate_has_method(name) == name \in estimator_methods

\* _check_is_fitted: NotFittedError unless refit is set and
\* check_is_fitted(self, 'best_estimator_') finds the attribute
CheckIsFitted == refit /\ best_estimator_ # 0 - 1

\* outcome[outcome >= 0.5] = 1; outcome[outcome < 0.5] = 0
BinarizeAbove(mean) == IF RatLess(<<1, 2>>, mean) THEN 1 ELSE 0
Binarize(mean) == IF RatLess(mean, <<1, 2>>) THEN 0 ELSE 1

\* est.predict(X) of the search object refit with configuration params
MemberPredict(params, X) == [i \in 1 .. Len(X) |-> member_predict[params][X[i]]]

\* Ensemble.predict: the members' predictions, row by row, their mean over
\* the members, binarized
EnsemblePredict(e, X) ==
    LET outcome == [k \in 1 .. n_estimators(e) |->
                        MemberPredict(e.estimators[k].params, X)]
    IN  [i \in 1 .. Len(X) |->
            Binarize(np_mean([k \in 1 .. n_estimators(e) |->
                                 <<outcome[k][i], 1>>]))]

\* a call of one of the six prediction methods of the search object
CallPrediction(name) ==
    /\ ens_pc = "idle"
    /\ LET X == Samples
           raised(exc) == [method |-> name, X |-> X, when |-> pc,
                           result |-> exc, value |-> <<>>]
           returned(v) == [method |-> name, X |-> X, when |-> pc,
                           result |-> "returned", value |-> v]
       IN  called' =
             IF ~if_delegate_has_method(name) THEN raised("AttributeError")
             ELSE IF ~CheckIsFitted THEN raised("NotFittedError")
             ELSE IF ensemble.type = "Ensemble"
             THEN IF n_estimators(ensemble) = 0 THEN raised("IndexError")
                  ELSE IF name = "predict"
                  THEN returned(EnsemblePredict(ensemble, X))
                  ELSE returned(<<>>)
             ELSE IF name = "predict"
             THEN returned(MemberPredict(best_estimator_, X))
             ELSE returned(<<>>)
    /\ UNCHANGED <<fitvars, kind, estimator_methods, valid_scoring,
                   member_predict, ensemble, ens_pc, ens_call, locals>>

\* the estimators tried: an SVC with probability=True, and an estimator
\* that also transforms
EstimatorKinds ==
    {PredictionMethods \ {"transform", "inverse_transform"},
     PredictionMethods}

InitPredict ==
    /\ backend = "joblib"
    /\ plugin_arg = NoPlugin
    /\ kind = "randomized"
    /\ n_cand \in 1 .. MaxMembers
    /\ maxlen = n_cand
    /\ iid = TRUE
    /\ refit \in BOOLEAN
    /\ return_train_score = TRUE
    /\ n_jobs = 1
    /\ n_jobspercore = 1
    /\ n_splits = 1
    /\ score = [t \in Range0(n_cand) \X Range0(n_splits) |->
                    ParityScore(t[1], t[2])]
    /\ counts = [s \in Range0(n_splits) |-> ParityCount(s)]
    /\ estimator_methods \in EstimatorKinds
    /\ valid_scoring = [m |-> 0, q |-> <<>>]
    /\ member_predict \in [Range0(n_cand) -> [1 .. Len(Samples) -> {0, 1}]]
    /\ Unfitted

NextPredict ==
    \/ FitJoblib
    \/ \E K \in 0 .. MaxMembers : CreateEnsemble(TopK(K), TRUE)
    \/ \E name \in PredictionMethods : CallPrediction(name)

SpecPredict == InitPredict /\ [][NextPredict]_vars

\* ------------------------------------------------------------------------
\* Repeated fits of one search object
\* ------------------------------------------------------------------------
MaxCandR == 2       \* candidates of a search object that is fit repeatedly

\* the test scores of the tasks on the data sets a fit may be given: on one
\* the even candidates score 0.9, on the other the odd ones
Datasets ==
    {[t \in Range0(n_cand) \X Range0(n_splits) |-> ParityScore(t[1], t[2])],
     [t \in Range0(n_cand) \X Range0(n_splits) |->
         ParityScore(t[1] + 1, t[2])]}

\* what Parallel(...) returns when the tasks score sc on the data
ParallelOutOn(sc) ==
    [k \in 1 .. NTasks |->
        [fit_and_score(TaskOf(k - 1)[1], TaskOf(k - 1)[2])
            EXCEPT !.test_score = sc[TaskOf(k - 1)],
                   !.train_score = sc[TaskOf(k - 1)] + 1]]

\* fit(X, y) on a joblib search object in any state, the first fit or a
\* later one: _fit and process_fit assign cv_results_, best_index_ and the
\* best_* attributes anew; nothing in fit, _fit or process_fit assigns
\* self.ensemble. A fit that raises leaves the attributes of the fit before.
Fit ==
    /\ backend = "joblib"
    /\ pc # "running"
    /\ ens_pc = "idle"
    /\ \E sc \in Datasets :
          /\ score' = sc
          /\ \E task_raises \in BOOLEAN :
                 IF task_raises
                 THEN raw' = raw /\ Raise("TaskError")
                 ELSE /\ raw' = ParallelOutOn(sc)
                      /\ CallProcessFit(ParallelOutOn(sc))
    /\ called' = [method |-> "fit", X |-> <<>>, when |-> pc,
                  result |-> IF pc' = "fitted" THEN "returned" ELSE error',
                  value |-> <<>>]
    /\ UNCHANGED <<kind, estimator_methods, valid_scoring, member_predict,
                   ensemble, ens_pc, ens_call, locals>>
    /\ UNCHANGED pluginvars
    /\ UNCHANGED cachevars
    /\ UNCHANGED <<backend, maxlen, iid, refit, return_train_score, n_jobs,
                   n_jobspercore, n_cand, n_splits, counts,
                   dispatched, out, overtaken, tempfolder, parameter_files,
                   job>>

\* the fitted configurations tried: each gives every sample the same label
ConstantPredictors == {[i \in 1 .. Len(Samples) |-> l] : l \in {0, 1}}

InitRefit ==
    /\ backend = "joblib"
    /\ plugin_arg = NoPlugin
    /\ kind = "randomized"
    /\ n_cand \in 1 .. MaxCandR
    /\ maxlen = n_cand
    /\ iid = TRUE
    /\ refit = TRUE
    /\ return_train_score = TRUE
    /\ n_jobs = 1
    /\ n_jobspercore = 1
    /\ n_splits = 1
    /\ score \in Datasets
    /\ counts = [s \in Range0(n_splits) |-> ParityCount(s)]
    /\ estimator_methods = PredictionMethods \ {"transform", "inverse_transform"}
    /\ valid_scoring = [m |-> 0, q |-> <<>>]
    /\ member_predict \in [Range0(n_cand) -> ConstantPredictors]
    /\ Unfitted

NextRefit ==
    \/ Fit
    \/ \E K \in 1 .. MaxCandR : CreateEnsemble(TopK(K), TRUE)
    \/ CallPrediction("predict")

SpecRefit == InitRefit /\ [][NextRefit]_vars

\* ------------------------------------------------------------------------
\* create_ensemble, Caruana branch: the precomputed validation scores and
\* the arrays handed to compute_performance
\* ------------------------------------------------------------------------
MaxCandV == 2       \* candidates per search (score cache specification)
MaxSplitsV == 1     \* cross-validation splits (score cache specification)
MaxRounds == 3      \* passes of the greedy loop followed
ValidSamples == 2   \* samples of a validation set
Probabilities == {2, 7}     \* predict_proba[:, 1] of a sample, in tenths
Scorings == {"f1_weighted", "auc", "sar"}

\* the loops `if score[num] >= 0.5: score[num] = 1 else: score[num] = 0`
\* of compute_performance and sar_score: the array after the loop
BinarizeScores(y) == [i \in DOMAIN y |-> IF y[i] >= 5 THEN 10 ELSE 0]

\* sar_score(truth, prediction): what is left in prediction
sar_score(prediction) == BinarizeScores(prediction)

\* compute_performance(scoring, Y_valid_truth, Y_valid_score): what the call
\* leaves in the array it was given; the value returned is sklearn's
compute_performance(sc, y) ==
    IF sc = "f1_weighted" THEN BinarizeScores(y)
    ELSE IF sc = "auc" THEN y
    ELSE sar_score(y)

\* the cache after compute_performance was called, in every fold, on
\* Y_valid_score[n_crossval][row, :] for the rows in rows: a basic slice of
\* the array, hence a view that shares its memory
EvaluatedOnViews(cache, sc, rows) ==
    [f \in DOMAIN cache |->
        [r \in DOMAIN cache[f] |->
            IF (r - 1) \in rows THEN compute_performance(sc, cache[f][r])
            ELSE cache[f][r]]]

\* create_ensemble(..., method='Caruana', scoring=sc, initialize) up to the
\* end of the precomputation: Y_valid_score_it[num, :] = Y_valid_score_temp
\* copies the probabilities into the cache before compute_performance is
\* given Y_valid_score_temp itself
Precompute(sc, initialize) ==
    /\ ens_pc = "idle"
    /\ cv_results_ # EmptyTable
    /\ kind = "randomized"
    /\ scoring' = sc
    /\ Y_valid_score' \in
           [1 .. n_splits ->
               [1 .. Len(cv_results_.params) ->
                   [1 .. ValidSamples -> Probabilities]]]
    /\ ens_call' = [method |-> Named("Caruana"), initialize |-> initialize,
                    outcome |-> "running", previous |-> ensemble,
                    selection |-> <<>>]
    /\ ens_pc' = IF initialize THEN "sorted_init" ELSE "greedy_scores"
    /\ locals' = CaruanaLocals
    /\ called' = NotCalled
    /\ UNCHANGED <<kind, estimator_methods, valid_scoring, member_predict,
                   ensemble>>
    /\ UNCHANGED pluginvars
    /\ UNCHANGED <<backend, maxlen, iid, refit, return_train_score, n_jobs,
                   n_jobspercore, n_cand, n_splits, score, counts, pc, error,
                   raw, dispatched, out, overtaken, tempfolder,
                   parameter_files, job, cv_results_, best_index_,
                   best_featlab, best_fitted, best_estimator_>>

\* the frame of the passes over the scores
PassFrame ==
    /\ UNCHANGED <<kind, estimator_methods, valid_scoring, member_predict,
                   ensemble, ens_call, called, scoring>>
    /\ UNCHANGED pluginvars
    /\ UNCHANGED <<backend, maxlen, iid, refit, return_train_score, n_jobs,
                   n_jobspercore, n_cand, n_splits, score, counts, pc, error,
                   raw, dispatched, out, overtaken, tempfolder,
                   parameter_files, job, cv_results_, best_index_,
                   best_featlab, best_fitted, best_estimator_>>

\* one pass of the for loop of the sorted initialization: in pass 0 the
\* array scored is Y_valid_score[n_crossval][sortedindices[0], :] itself
\* (sortedindices follows sklearn's metric values: any row may be first),
\* in later passes the np.mean of an np.vstack, a new array
SortedInitScores ==
    /\ ens_pc = "sorted_init"
    /\ IF locals.iteration = 0
       THEN \E first \in Range0(Len(cv_results_.params)) :
               Y_valid_score' =
                   EvaluatedOnViews(Y_valid_score, scoring, {first})
       ELSE Y_valid_score' = Y_valid_score
    /\ locals' = [locals EXCEPT !.iteration =
                      IF @ + 1 = Len(cv_results_.params) THEN 0 ELSE @ + 1]
    /\ ens_pc' = IF locals.iteration + 1 = Len(cv_results_.params)
                 THEN "greedy_scores" ELSE "sorted_init"
    /\ PassFrame

\* one pass of the while loop: in pass 0 every row
\* Y_valid_score[n_crossval][n_estimator, :] is scored as it is, in later
\* passes the np.mean of an np.vstack; whether another pass follows is
\* decided by sklearn's metric values
GreedyScores ==
    /\ ens_pc = "greedy_scores"
    /\ Y_valid_score' =
           IF locals.iteration = 0
           THEN EvaluatedOnViews(Y_valid_score, scoring,
                                 Range0(Len(cv_results_.params)))
           ELSE Y_valid_score
    /\ locals' = [locals EXCEPT !.iteration = @ + 1]
    /\ \E goes_on \in BOOLEAN :
           ens_pc' = IF goes_on /\ locals.iteration + 1 < MaxRounds
                     THEN "greedy_scores" ELSE "scored"
    /\ PassFrame

InitCache ==
    /\ backend = "joblib"
    /\ plugin_arg = NoPlugin
    /\ kind = "randomized"
    /\ n_cand \in 1 .. MaxCandV
    /\ maxlen = n_cand
    /\ iid = TRUE
    /\ refit = TRUE
    /\ return_train_score = TRUE
    /\ n_jobs = 1
    /\ n_jobspercore = 1
    /\ n_splits \in 1 .. MaxSplitsV
    /\ score = [t \in Range0(n_cand) \X Range0(n_splits) |->
                    ParityScore(t[1], t[2])]
    /\ counts = [s \in Range0(n_splits) |-> ParityCount(s)]
    /\ estimator_methods = PredictionMethods \ {"transform", "inverse_transform"}
    /\ valid_scoring = [m |-> 0, q |-> <<>>]
    /\ member_predict = <<>>
    /\ Unfitted

NextCache ==
    \/ FitJoblib
    \/ \E sc \in Scorings, initialize \in BOOLEAN : Precompute(sc, initialize)
    \/ SortedInitScores
    \/ GreedyScores

SpecCache == InitCache /\ [][NextCache]_vars

\* ------------------------------------------------------------------------
\* Failure of fit
\* ------------------------------------------------------------------------
\* the result attributes as they were before the call of fit (fit is called
\* on the constructed object, where none of them exists)
ResultsAbsent ==
    /\ cv_results_ = EmptyTable
    /\ best_index_ = -1
    /\ best_featlab = None
    /\ best_fitted = None
    /\ best_estimator_ = -1

\* C11: if fit fails at any step (a task, the reduction or the refit of the
\* best estimator), cv_results_, best_index_, the best_* artifacts and
\* best_estimator_ are all as they were before the call, never a mix.
C11_FailedFitLeavesNoMix == pc = "failed" => ResultsAbsent

\* C19: with return_train_score = False fit completes successfully unless a
\* task or the refit raised.
C19_FitWithoutTrainScores ==
    (~return_train_score /\ pc \notin {"constructed", "running"}
        /\ error \notin {"TaskError", "RefitError"}) => pc = "fitted"

\* ------------------------------------------------------------------------
\* Claims about create_ensemble
\* ------------------------------------------------------------------------
\* a call of create_ensemble has come to its end
CallEnded == ens_pc = "idle" /\ ens_call.outcome \notin {"none", "running"}
Returned == ens_pc = "idle" /\ ens_call.outcome = "returned"
RetainedRows == Len(cv_results_.params)

\* C12: create_ensemble with a method that is neither an integer K nor
\* 'Caruana' raises instead of returning normally.
C12_UnknownMethodRaises ==
    (CallEnded /\ ens_call.method.name \notin {"int", "Caruana"}) =>
        ens_call.outcome \notin {"returned", "warned"}

\* C13: whenever create_ensemble returns without raising for an integer K
\* or 'Caruana', the object holds an ensemble of at least one member.
C13_NonEmptyEnsemble ==
    (CallEnded /\ ens_call.method.name \in {"int", "Caruana"}
        /\ ens_call.outcome \in {"returned", "warned"}) =>
        /\ ensemble.type = "Ensemble"
        /\ n_estimators(ensemble) >= 1

\* C14: with a validation score that depends only on the ensemble size,
\* rising strictly up to size m and falling strictly after it, Caruana
\* construction ends with exactly m members, with or without sorted
\* initialization and for every number of retained rows (stated for the
\* RandomizedSearchCV classes, for which base_estimator is bound).
C14_PeakSizeReached ==
    (CallEnded /\ kind = "randomized" /\ ens_call.method.name = "Caruana"
        /\ valid_scoring.m > 0) =>
        /\ ens_call.outcome = "returned"
        /\ n_estimators(ensemble) = valid_scoring.m

\* the parameters of the members of the stored ensemble
MemberParams ==
    {ensemble.estimators[k].params : k \in 1 .. n_estimators(ensemble)}

C16_MembersFromSelection ==
    Returned =>
        LET sel == ens_call.selection
            est == ensemble.estimators
        IN  /\ ensemble.type = "Ensemble"
            /\ Len(est) = Len(sel)
            /\ \A k \in 1 .. Len(sel) :
                  /\ est[k].params = At(cv_results_.params, sel[k])
                  /\ est[k].train = "all"
            /\ \A j, k \in 1 .. Len(sel) : j # k => est[j].obj # est[k].obj

C16_Witness ==
    /\ Returned
    /\ ens_call.previous.type = "Ensemble"
    /\ n_estimators(ens_call.previous) = 1
    /\ n_estimators(ensemble) = 3
    /\ ens_call.selection[1] = ens_call.selection[2]
    /\ ensemble.estimators[1].obj # ensemble.estimators[2].obj

\* C20: in every round of the greedy expansion, the first round after a
\* sorted initialization included, the score of row c is the mean over the
\* folds of the performance of the current ensemble with c added, and the
\* row chosen has the highest score.
C20_RoundScoresEnsemblePlusCandidate ==
    (ens_pc = "greedy" /\ locals.iteration >= 1) =>
        /\ \A c \in 1 .. RetainedRows :
              RatEq(locals.performances_temp[c],
                    np_mean([f \in 1 .. n_splits |->
                        StackPerformance(f - 1,
                            Append(locals.ensemble, c - 1))]))
        /\ \A c \in 1 .. RetainedRows :
              ~RatLess(At(locals.performances_temp, locals.best_index),
                       locals.performances_temp[c])

\* ------------------------------------------------------------------------
\* Claims about the prediction methods
\* ------------------------------------------------------------------------
\* the members of the stored ensemble that predict label 1 for sample x
Ones(x) ==
    {k \in 1 .. n_estimators(ensemble) :
        member_predict[ensemble.estimators[k].params][x] = 1}

\* predict was answered by the ensemble stored now
EnsembleAnswered ==
    /\ called.method = "predict"
    /\ called.result = "returned"
    /\ ensemble.type = "Ensemble"
    /\ ens_call.outcome = "returned"

\* C17: Ensemble.predict gives, for each sample, 1 if at least half of the
\* n members predict 1 (their mean is at least 0.5, a tie counts as 1) and
\* 0 otherwise.
C17_MajorityVote ==
    EnsembleAnswered =>
        \A i \in 1 .. Len(called.X) :
            called.value[i] =
                (IF 2 * Cardinality(Ones(called.X[i]))
                        >= n_estimators(ensemble)
                 THEN 1 ELSE 0)

C17_Witness ==
    /\ EnsembleAnswered
    /\ n_estimators(ensemble) = 2
    /\ Cardinality(Ones(called.X[1])) = 1
    /\ called.value[1] = 1
    /\ called.value[2] = 0

\* C18 as stated: with refit = False every prediction method called after
\* fit raises NotFittedError.
C18_NotFittedError ==
    (~refit /\ called.when = "fitted") => called.result = "NotFittedError"

\* C18: with refit = False no prediction method called after fit returns a
\* result: it raises NotFittedError if the underlying estimator provides
\* the method and AttributeError (the method does not exist) otherwise.
C18_PredictionUnavailable ==
    (~refit /\ called.when = "fitted") =>
        /\ called.value = <<>>
        /\ called.result =
              (IF called.method \in estimator_methods
               THEN "NotFittedError" ELSE "AttributeError")

C18_Witness ==
    /\ ~refit
    /\ called.when = "fitted"
    /\ called.method = "predict_proba"
    /\ called.result = "NotFittedError"
    /\ ensemble.type = "Ensemble"

\* ------------------------------------------------------------------------
\* Claims about the Caruana phases
\* ------------------------------------------------------------------------
\* the rows in descending order of mean validation performance, and the mean
\* cross-validated performance of the ensemble of the first k of them
DescendingRows == sorted_by_performance(RetainedRows, n_splits)
PrefixPerformance(k) ==
    np_mean([f \in 1 .. n_splits |->
                StackPerformance(f - 1, Prefix(DescendingRows, k))])

\* the smallest size whose prefix has the highest performance of all sizes
BestPrefixSize ==
    CHOOSE M \in 1 .. RetainedRows :
        /\ \A k \in 1 .. RetainedRows :
              ~RatLess(PrefixPerformance(M), PrefixPerformance(k))
        /\ \A k \in 1 .. (M - 1) :
              RatLess(PrefixPerformance(k), PrefixPerformance(M))

\* the sorted initialization has just handed over to the greedy phase
HandedOver ==
    /\ ens_pc = "greedy"
    /\ ens_call.initialize
    /\ locals.iteration = 0

\* C21: with sorted initialization the ensemble handed to the greedy phase
\* is exactly the first M rows in descending order of mean validation
\* performance, M the smallest size of highest prefix performance, and the
\* stacked scores hold exactly those M rows.
C21_InitializedPrefix ==
    HandedOver =>
        /\ locals.ensemble = Prefix(DescendingRows, BestPrefixSize)
        /\ locals.y_score = Prefix(DescendingRows, BestPrefixSize)

\* ------------------------------------------------------------------------
\* Claims about the rows of the reduced table
\* ------------------------------------------------------------------------
\* the candidate whose configuration is stored at the best row
BestCandidate == At(cv_results_.params, best_index_)

\* C24: after reduction the best_* artifacts and best_featlab promoted to
\* the best state belong to the candidate stored at best_index_, whose row
\* has rank 1 and holds that candidate's full configuration.
C24_BestStateOfBestRow ==
    cv_results_ # EmptyTable =>
        /\ At(cv_results_.rank_test_score, best_index_) = 1
        /\ At(cv_results_.params_all, best_index_) = BestCandidate
        /\ best_fitted[1] = BestCandidate
        /\ best_featlab[1] = BestCandidate

\* the rank of candidate c among all candidates: one more than the number
\* of candidates with a higher mean test score
RankOf(c) == Cardinality(Better(c)) + 1

\* the candidates that precede c in ascending order of (rank, index),
\* rank being the ranks of all candidates
Before(c, rank) ==
    {d \in Range0(n_cand) :
        rank[d] < rank[c] \/ (rank[d] = rank[c] /\ d < c)}

\* C25: the retained rows are the first min(maxlen, n_candidates)
\* candidates in ascending order of (rank, original index), in that order;
\* so no discarded candidate has a lower rank than a retained one, and a
\* tie at the boundary keeps the lower index.
C25_RetainedPrefix ==
    cv_results_ # EmptyTable =>
        \A rank \in {[c \in Range0(n_cand) |-> RankOf(c)]} :
            /\ Len(cv_results_.params) = MinOf(maxlen, n_cand)
            /\ \A k \in Rows :
                   Cardinality(Before(cv_results_.params[k], rank)) = k - 1
            /\ \A k \in Rows :
                   cv_results_.rank_test_score[k] = rank[cv_results_.params[k]]

C25_Witness ==
    /\ pc = "fitted"
    /\ maxlen = 2
    /\ n_cand = 3
    /\ RankOf(0) = 2
    /\ RankOf(1) = 1
    /\ RankOf(2) = 2
    /\ cv_results_.params = <<1, 0>>

\* ------------------------------------------------------------------------
\* Claims about the standard deviations
\* ------------------------------------------------------------------------
\* the variance of the values x(s) over the splits under the weights w(s),
\* as the weighted mean of the squares minus the square of the weighted mean
VarianceOf(x(_), w(_)) ==
    LET W == SumSeq([k \in 1 .. n_splits |-> w(k - 1)])
        S1 == SumSeq([k \in 1 .. n_splits |-> w(k - 1) * x(k - 1)])
        S2 == SumSeq([k \in 1 .. n_splits |-> w(k - 1) * x(k - 1) * x(k - 1)])
    IN  <<S2 * W - S1 * S1, W * W>>

CountWeight(s) == counts[s]
UnitWeight(s) == 1

\* the squared standard deviations of row k agree with the variances of the
\* row's candidate c under the weights wtest (test score) and wother
StdsAre(k, c, wtest(_), wother(_)) ==
    LET test(s) == score[<<c, s>>]
        train(s) == TrainScore(c, s)
        fit(s) == FitTime(c, s)
        sc(s) == ScoreTime(c, s)
    IN  /\ RatEq(cv_results_.std_squared["test_score"][k], VarianceOf(test, wtest))
        /\ RatEq(cv_results_.std_squared["train_score"][k], VarianceOf(train, wother))
        /\ RatEq(cv_results_.std_squared["fit_time"][k], VarianceOf(fit, wother))
        /\ RatEq(cv_results_.std_squared["score_time"][k], VarianceOf(sc, wother))

\* C26 as stated: for test_score, train_score, fit_time and score_time the
\* standard deviation over the splits is weighted by the test-sample counts
\* in iid mode and unweighted otherwise.
C26_AllStdsWeighted ==
    cv_results_ # EmptyTable =>
        \A k \in Rows :
            IF iid
            THEN StdsAre(k, cv_results_.params[k], CountWeight, CountWeight)
            ELSE StdsAre(k, cv_results_.params[k], UnitWeight, UnitWeight)

\* C26: only the standard deviation of test_score is weighted by the
\* test-sample counts in iid mode; those of train_score, fit_time and
\* score_time are unweighted in both modes, as is that of test_score when
\* iid is off.
C26_TestStdWeighted ==
    cv_results_ # EmptyTable =>
        \A k \in Rows :
            IF iid
            THEN StdsAre(k, cv_results_.params[k], CountWeight, UnitWeight)
            ELSE StdsAre(k, cv_results_.params[k], UnitWeight, UnitWeight)

C26_Witness ==
    /\ pc = "fitted"
    /\ iid
    /\ n_splits = 2
    /\ cv_results_.split_test_score[1] = <<9, 5>>
    /\ RatEq(cv_results_.std_squared["test_score"][1], <<336, 100>>)
    /\ RatEq(cv_results_.std_squared["train_score"][1], <<4, 1>>)
    /\ RatEq(cv_results_.std_squared["fit_time"][1], <<1, 4>>)

\* the positions <<file, place>> of the parameter files that hold candidate c
PlacesOf(c) ==
    {fk \in Range0(Len(parameter_files)) \X Range0(MaxCandC + 1) :
        /\ fk[2] < Len(At(parameter_files, fk[1]))
        /\ At(At(parameter_files, fk[1]), fk[2]) = c}

Submitted == backend = "fastr" /\ pc # "constructed"

\* C27: once a fastr search has written its parameter files, every
\* candidate is in exactly one file at exactly one place, no file holds
\* more than n_jobspercore candidates, at most one file holds fewer, and
\* there are ceil(n_candidates / n_jobspercore) files.
C27_ParameterFilesPartition ==
    Submitted =>
        /\ \A c \in Range0(n_cand) : Cardinality(PlacesOf(c)) = 1
        /\ \A f \in Range0(Len(parameter_files)) :
               /\ Len(At(parameter_files, f)) <= n_jobspercore
               /\ \A k \in Range0(Len(At(parameter_files, f))) :
                      At(At(parameter_files, f), k) \in Range0(n_cand)
        /\ Cardinality({f \in Range0(Len(parameter_files)) :
                           Len(At(parameter_files, f)) # n_jobspercore}) <= 1
        /\ Len(parameter_files) * n_jobspercore >= n_cand
        /\ (Len(parameter_files) - 1) * n_jobspercore < n_cand

\* several files were written and one of them is short
C27_Witness ==
    /\ Submitted
    /\ Len(parameter_files) >= 2
    /\ \E f \in Range0(Len(parameter_files)) :
           Len(At(parameter_files, f)) < n_jobspercore

\* C28: the execution_plugin given to network.execute is the fastr_plugin
\* argument the search object was constructed with.
C28_PluginPassedOn ==
    execution_plugin # "unset" => execution_plugin = plugin_arg


\* the step is a call of predict that returns, made right after a fit that
\* succeeded
PredictAfterFit ==
    /\ called.method = "fit"
    /\ called.result = "returned"
    /\ called'.method = "predict"
    /\ called'.result = "returned"

\* C29: a predict that follows a successful fit (refit enabled), whatever
\* fit and create_ensemble calls came before that fit, returns the
\* prediction of the best estimator that fit produced; an ensemble built
\* before the fit does not answer.
C29_LastFitAnswers ==
    [][PredictAfterFit =>
          called'.value = MemberPredict(best_estimator_, Samples)]_vars


\* new_performance exceeds the best of the round before by more than 1e-10
ImprovesBeyondEpsilon(L) ==
    FloatLess(L.best_performance.v, L.best_performance.t + EpsilonUnits,
              L.new_performance, L.new_tiny)

\* the step appends a member to the greedy ensemble
MemberAdded ==
    /\ ens_pc = "greedy"
    /\ ens_pc' = "greedy"
    /\ Len(locals'.ensemble) > Len(locals.ensemble)

\* the step leaves the while loop with the ensemble as it was
LoopEndsWithoutAdding ==
    /\ ens_pc' = "idle"
    /\ ens_call'.selection = locals.ensemble

\* C22: the greedy loop appends a member only when the best performance of
\* the last round exceeds the best of the round before by more than 1e-10,
\* and after every round whose improvement is at most 1e-10 the loop ends
\* without appending a member.
C22_AdditionNeedsMoreThanEpsilon ==
    [][/\ MemberAdded => ImprovesBeyondEpsilon(locals)
       /\ (/\ ens_pc = "greedy"
           /\ locals.iteration >= 1
           /\ ~ImprovesBeyondEpsilon(locals)) => LoopEndsWithoutAdding]_vars

\* the mean validation performance of the ensemble of the rows in stack
EnsembleScore(stack) ==
    [v |-> np_mean([f \in 1 .. n_splits |-> StackPerformance(f - 1, stack)]),
     t |-> TinyPerformance(0, stack)]

CaruanaReturned ==
    /\ ens_pc = "idle"
    /\ ens_call.method = Named("Caruana")
    /\ ens_call.outcome = "returned"

\* no row added to the final ensemble gives a higher score
NoAdditionImproves ==
    LET final == ens_call.selection
    IN  final # <<>> =>
            \A c \in Range0(Len(cv_results_.params)) :
                ~FloatLess(EnsembleScore(final).v, EnsembleScore(final).t,
                           EnsembleScore(Append(final, c)).v,
                           EnsembleScore(Append(final, c)).t)

\* best_performance as the while condition reads it
BestFloat(L) ==
    [v |-> L.best_performance.v,
     t |-> L.best_performance.t - EpsilonUnits * L.best_performance.eps]

\* a pass of the while loop that is followed by another pass has raised
\* best_performance
RoundRaisesBest ==
    (ens_pc = "greedy" /\ ens_pc' = "greedy" /\ Improves(locals')) =>
        FloatLess(BestFloat(locals).v, BestFloat(locals).t,
                  BestFloat(locals').v, BestFloat(locals').t)

\* C23: the greedy loop of create_ensemble in Caruana mode comes to an end
\* for every scoring function with a finite range (every pass that is
\* followed by another one raises best_performance), and when the call has
\* returned no single addition to the final ensemble scores higher than
\* the final ensemble.
C23_GreedyEndsAtLocalOptimum ==
    /\ [][RoundRaisesBest]_vars
    /\ [](CaruanaReturned => NoAdditionImproves)

\* the termination part alone
C23_GreedyLoopEnds == [][RoundRaisesBest]_vars


\* C30: after the precomputation, no pass of the sorted initialization or
\* of the greedy loop changes a cached validation score, whatever the
\* metric.
C30_CacheUnchanged ==
    [][(ens_pc = "sorted_init" \/ ens_pc = "greedy_scores") =>
          Y_valid_score' = Y_valid_score]_vars

====
